---- MODULE Spec2Model ----
(***************************************************************************)
(* Keypoint operations of object_detection/core/keypoint_ops.py and the    *)
(* assertion switch of object_detection/utils/control_dependencies.py.     *)
(*                                                                         *)
(* A keypoint tensor of shape [num_instances, num_keypoints, 2] is a       *)
(* function  instance -> keypoint -> <<y, x>>  with 0-based indices, as in *)
(* the source.  A coordinate is a float32; the model keeps the structure   *)
(* of binary floating point (a significand of Precision bits, round to     *)
(* nearest even after every operation, a NaN that poisons arithmetic and   *)
(* fails every comparison) at a reduced width: a number n stands for       *)
(* n / Unit, and it is a float when its significand fits Precision bits.   *)
(*                                                                         *)
(* The operations are pure; the state is that of a caller that builds a    *)
(* tensor, applies one transform to it, possibly several times in a row    *)
(* (a quarter turn four times, a flip twice), and may then derive the      *)
(* visibilities of what it holds.  Graph-mode semantics                    *)
(* (tensorflow.compat.v1): a tf.Assert op runs only when an executed op    *)
(* depends on it.                                                          *)
(***************************************************************************)
EXTENDS Integers, Sequences, FiniteSets

VARIABLES
    envAssertActive,  \* os.getenv('ASSERT_ACTIVE') when the module is imported
    ASSERT_ACTIVE,    \* control_dependencies.ASSERT_ACTIVE
    propagateNaN,     \* the build's reductions and min/max return NaN on a NaN operand
    keypoints,        \* the tensor the caller holds
    call,             \* the last keypoint transform called, with its arguments
    error,            \* the error the last call raised, or NoError
    visibility,       \* the last set_keypoint_visibilities call and its result
    base,             \* the tensor the caller started from
    streak            \* how many times in a row the last call has been made

vars == <<envAssertActive, ASSERT_ACTIVE, propagateNaN, keypoints, call, error,
          visibility, base, streak>>

----------------------------------------------------------------------------
(* Bounds of the model. *)

\* Shape of a tensor: [NumInstances, NumKeypoints, 2].
NumInstances == 1

NumKeypoints == 3

\* How many times in a row the caller applies a transform to its own result.
MaxRepeats == 4

----------------------------------------------------------------------------
(* float32 at reduced width. *)

\* Bits of the significand (float32 has 24).
Precision == 8

\* Numbers are counted in units of 2^-GridBits.
GridBits == 10

Abs(n) == IF n < 0 THEN -n ELSE n

RECURSIVE Pow2(_)
Pow2(e) == IF e = 0 THEN 1 ELSE 2 * Pow2(e - 1)

\* Not a number: a value apart from every number of the model, which each
\* operation and comparison tests for before it reads its operands as numbers.
NaN == -Pow2(30)

IsNaN(a) == a = NaN

\* The value 1.0.
Unit == Pow2(GridBits)

\* Significands are below this.
SignificandLimit == Pow2(Precision)

\* The spacing of the floats around a / d units: the smallest power of two
\* that leaves the significand within Precision bits.
RECURSIVE StepFor(_, _, _)
StepFor(a, d, step) ==
    IF a < SignificandLimit * step * d THEN step ELSE StepFor(a, d, 2 * step)

\* a / b rounded to the nearest integer, ties to even (a >= 0, b > 0).
RoundHalfEven(a, b) ==
    LET q == a \div b
        r == a % b
    IN  IF 2 * r < b THEN q
        ELSE IF 2 * r > b THEN q + 1
        ELSE IF q % 2 = 0 THEN q ELSE q + 1

\* The float nearest to num / den units (den > 0).
Round(num, den) ==
    LET a == Abs(num)
        step == StepFor(a, den, 1)
        m == RoundHalfEven(a, step * den) * step
    IN  IF num < 0 THEN -m ELSE m

IsFloat(n) == Round(n, 1) = n

\* A Python number as a float32 tensor (tf.cast, or the conversion of a literal).
Float(n) == Round(n * Unit, 1)

\* The literal 1.01 as a float32.
Threshold == Round(101 * Unit, 100)

FSub(a, b) == IF IsNaN(a) \/ IsNaN(b) THEN NaN ELSE Round(a - b, 1)

\* a * b / den rounded, the powers of two of den cancelled before multiplying.
RECURSIVE RoundProduct(_, _, _)
RoundProduct(a, b, den) ==
    IF den > 1 /\ a % 2 = 0 THEN RoundProduct(a \div 2, b, den \div 2)
    ELSE IF den > 1 /\ b % 2 = 0 THEN RoundProduct(a, b \div 2, den \div 2)
    ELSE Round(a * b, den)

FMul(a, b) == IF IsNaN(a) \/ IsNaN(b) THEN NaN ELSE RoundProduct(a, b, Unit)

FDiv(a, b) == IF IsNaN(a) \/ IsNaN(b) THEN NaN ELSE
    IF b < 0 THEN Round(-(a * Unit), -b) ELSE Round(a * Unit, b)

\* Comparisons: false as soon as an operand is NaN.
FGreater_OrEqual(a, b) == ~IsNaN(a) /\ ~IsNaN(b) /\ a >= b

FGreater(a, b) == ~IsNaN(a) /\ ~IsNaN(b) /\ a > b

FGreaterEqual(a, b) == ~IsNaN(a) /\ ~IsNaN(b) /\ a >= b

FLessEqual(a, b) == ~IsNaN(a) /\ ~IsNaN(b) /\ a <= b

\* tf.minimum and tf.maximum; on a NaN operand the result is NaN or the other
\* operand, as the build has it.
FMinimum(a, b, nanWins) ==
    IF IsNaN(a) \/ IsNaN(b)
    THEN IF nanWins THEN NaN ELSE IF IsNaN(a) THEN b ELSE a
    ELSE IF a < b THEN a ELSE b

FMaximum(a, b, nanWins) ==
    IF IsNaN(a) \/ IsNaN(b)
    THEN IF nanWins THEN NaN ELSE IF IsNaN(a) THEN b ELSE a
    ELSE IF a > b THEN a ELSE b

----------------------------------------------------------------------------
(* Tensors. *)

Instances == 0 .. NumInstances - 1

Keypoints == 0 .. NumKeypoints - 1

Y(p) == p[1]

X(p) == p[2]

\* tf.transpose(keypoints, [1, 0, 2])
Transpose(t) == [a \in DOMAIN t[CHOOSE b \in DOMAIN t : TRUE] |-> [b \in DOMAIN t |-> t[b][a]]]

\* tf.gather(params, indices) along the first axis; indices is a Python list.
Gather(params, indices) == [j \in 0 .. Len(indices) - 1 |-> params[indices[j + 1]]]

\* The truth value Python gives a permutation argument: None and [] are false.
Truthy(permutation) == ~permutation.none /\ Len(permutation.list) > 0

\* An optional argument: Python's None, or a value.
None == [none |-> TRUE]

Some(list) == [none |-> FALSE, list |-> list]

\* All coordinates of a tensor.
Values(t) == {t[i][k][c] : i \in DOMAIN t, k \in Keypoints, c \in 1 .. 2}

\* tf.reduce_max over the whole tensor.
ReduceMax(t, nanWins) ==
    LET numbers == Values(t) \ {NaN}
    IN  IF numbers = {} \/ (nanWins /\ NaN \in Values(t)) THEN NaN
        ELSE CHOOSE m \in numbers : \A n \in numbers : n <= m

----------------------------------------------------------------------------
(* control_dependencies.py *)

assert_control_dependencies_Always(conditions) == conditions

\* ASSERT_ACTIVE = os.getenv('ASSERT_ACTIVE') == '1'
AssertActiveFromEnv(value) == value = "1"

\* The asserts an op created inside the returned context depends on:
\* tf.control_dependencies(conditions) when ASSERT_ACTIVE, NoOpContext otherwise.
assert_control_dependencies(conditions) ==
    IF ASSERT_ACTIVE THEN conditions ELSE {}

----------------------------------------------------------------------------
(* keypoint_ops.py *)

NoError == [kind |-> "none"]

Returned(t) == [ok |-> TRUE, value |-> t]

\* tf.Assert(condition, data) failing at graph execution time.
Raised(data) == [ok |-> FALSE, error |-> [kind |-> "InvalidArgumentError", data |-> data]]

\* An op that depends on a set of asserts runs when all their conditions hold.
FirstFailed(asserts) ==
    IF \E a \in asserts : ~a.condition
    THEN (CHOOSE a \in asserts : ~a.condition).data
    ELSE <<>>

scale_Swapped(t, y_scale, x_scale) ==
    [i \in DOMAIN t |-> [k \in DOMAIN t[i] |->
        <<FMul(Y(t[i][k]), x_scale), FMul(X(t[i][k]), y_scale)>>]]

scale(t, y_scale, x_scale) ==
    [i \in DOMAIN t |-> [k \in DOMAIN t[i] |->
        <<FMul(Y(t[i][k]), y_scale), FMul(X(t[i][k]), x_scale)>>]]

clip_to_window_UpperOnly(t, window, nanWins) ==
    [i \in DOMAIN t |-> [k \in DOMAIN t[i] |->
        <<FMinimum(Y(t[i][k]), window[3], nanWins),
          FMinimum(X(t[i][k]), window[4], nanWins)>>]]

clip_to_window(t, window, nanWins) ==
    LET win_y_min == window[1]
        win_x_min == window[2]
        win_y_max == window[3]
        win_x_max == window[4]
    IN  [i \in DOMAIN t |-> [k \in DOMAIN t[i] |->
            <<FMaximum(FMinimum(Y(t[i][k]), win_y_max, nanWins), win_y_min, nanWins),
              FMaximum(FMinimum(X(t[i][k]), win_x_max, nanWins), win_x_min, nanWins)>>]]

prune_outside_window_Strict(t, window) ==
    LET valid_indices(p) ==
            /\ FGreater(Y(p), window[1]) /\ FGreater(window[3], Y(p))
            /\ FGreater(X(p), window[2]) /\ FGreater(window[4], X(p))
    IN  [i \in DOMAIN t |-> [k \in DOMAIN t[i] |->
            <<IF valid_indices(t[i][k]) THEN Y(t[i][k]) ELSE NaN,
              IF valid_indices(t[i][k]) THEN X(t[i][k]) ELSE NaN>>]]

prune_outside_window_KeepsOther(t, window) ==
    LET y_valid(p) == FGreaterEqual(Y(p), window[1]) /\ FLessEqual(Y(p), window[3])
        x_valid(p) == FGreaterEqual(X(p), window[2]) /\ FLessEqual(X(p), window[4])
    IN  [i \in DOMAIN t |-> [k \in DOMAIN t[i] |->
            <<IF y_valid(t[i][k]) THEN Y(t[i][k]) ELSE NaN,
              IF x_valid(t[i][k]) THEN X(t[i][k]) ELSE NaN>>]]

prune_outside_window(t, window) ==
    LET win_y_min == window[1]
        win_x_min == window[2]
        win_y_max == window[3]
        win_x_max == window[4]
        valid_indices(p) ==
            /\ FGreaterEqual(Y(p), win_y_min) /\ FLessEqual(Y(p), win_y_max)
            /\ FGreaterEqual(X(p), win_x_min) /\ FLessEqual(X(p), win_x_max)
    IN  [i \in DOMAIN t |-> [k \in DOMAIN t[i] |->
            <<IF valid_indices(t[i][k]) THEN Y(t[i][k]) ELSE NaN,
              IF valid_indices(t[i][k]) THEN X(t[i][k]) ELSE NaN>>]]

to_normalized_coordinates(t, height, width, check_range, nanWins) ==
    LET h == Float(height)
        w == Float(width)
        max_val == ReduceMax(t, nanWins)
        max_assert == [condition |-> FGreater(max_val, Threshold),
                       data |-> <<"max value is lower than 1.01: ", max_val>>]
        deps == IF check_range THEN assert_control_dependencies({max_assert}) ELSE {}
    IN  IF FirstFailed(deps) /= <<>> THEN Raised(FirstFailed(deps))
        ELSE Returned(scale(t, FDiv(Unit, h), FDiv(Unit, w)))

to_absolute_coordinates(t, height, width, check_range, nanWins) ==
    LET h == Float(height)
        w == Float(width)
        max_val == ReduceMax(t, nanWins)
        max_assert == [condition |-> FGreaterEqual(Threshold, max_val),
                       data |-> <<"maximum keypoint coordinate value is larger than 1.01: ",
                                  max_val>>]
        deps == IF check_range THEN assert_control_dependencies({max_assert}) ELSE {}
    IN  IF FirstFailed(deps) /= <<>> THEN Raised(FirstFailed(deps))
        ELSE Returned(scale(t, h, w))

flip_horizontal_NoDouble(t, flip_point, flip_permutation) ==
    LET transposed == Transpose(t)
        gathered == IF Truthy(flip_permutation)
                    THEN Gather(transposed, flip_permutation.list) ELSE transposed
        new_keypoints == [k \in DOMAIN gathered |-> [i \in DOMAIN gathered[k] |->
            <<Y(gathered[k][i]), FSub(flip_point, X(gathered[k][i]))>>]]
    IN  Transpose(new_keypoints)

flip_horizontal(t, flip_point, flip_permutation) ==
    LET transposed == Transpose(t)
        gathered == IF Truthy(flip_permutation)
                    THEN Gather(transposed, flip_permutation.list) ELSE transposed
        new_keypoints == [k \in DOMAIN gathered |-> [i \in DOMAIN gathered[k] |->
            <<Y(gathered[k][i]), FSub(FMul(flip_point, Float(2)), X(gathered[k][i]))>>]]
    IN  Transpose(new_keypoints)

flip_vertical(t, flip_point, flip_permutation) ==
    LET transposed == Transpose(t)
        gathered == IF Truthy(flip_permutation)
                    THEN Gather(transposed, flip_permutation.list) ELSE transposed
        new_keypoints == [k \in DOMAIN gathered |-> [i \in DOMAIN gathered[k] |->
            <<FSub(FMul(flip_point, Float(2)), Y(gathered[k][i])), X(gathered[k][i])>>]]
    IN  Transpose(new_keypoints)

rot90_NoReverse(t, rotation_permutation) ==
    LET transposed == Transpose(t)
        gathered == IF Truthy(rotation_permutation)
                    THEN Gather(transposed, rotation_permutation.list) ELSE transposed
        new_keypoints == [k \in DOMAIN gathered |-> [i \in DOMAIN gathered[k] |->
            <<FSub(Float(1), Y(gathered[k][i])), X(gathered[k][i])>>]]
    IN  Transpose(new_keypoints)

rot90(t, rotation_permutation) ==
    LET transposed == Transpose(t)
        gathered == IF Truthy(rotation_permutation)
                    THEN Gather(transposed, rotation_permutation.list) ELSE transposed
        \* keypoints[:, :, ::-1] split into v, u: v is the old x, u the old y
        new_keypoints == [k \in DOMAIN gathered |-> [i \in DOMAIN gathered[k] |->
            <<FSub(Float(1), X(gathered[k][i])), Y(gathered[k][i])>>]]
    IN  Transpose(new_keypoints)

set_keypoint_visibilities_OnlyY(t, initial_keypoint_visibilities) ==
    LET keypoint_visibilities ==
            IF ~initial_keypoint_visibilities.none
            THEN initial_keypoint_visibilities.list
            ELSE [i \in DOMAIN t |-> [k \in DOMAIN t[i] |-> TRUE]]
    IN  [i \in DOMAIN t |-> [k \in DOMAIN t[i] |->
            IF IsNaN(Y(t[i][k])) THEN FALSE ELSE keypoint_visibilities[i][k]]]

set_keypoint_visibilities(t, initial_keypoint_visibilities) ==
    LET keypoint_visibilities ==
            IF ~initial_keypoint_visibilities.none
            THEN initial_keypoint_visibilities.list
            ELSE [i \in DOMAIN t |-> [k \in DOMAIN t[i] |-> TRUE]]
        keypoints_with_nan == [i \in DOMAIN t |-> [k \in DOMAIN t[i] |->
            IsNaN(Y(t[i][k])) \/ IsNaN(X(t[i][k]))]]
    IN  [i \in DOMAIN t |-> [k \in DOMAIN t[i] |->
            IF keypoints_with_nan[i][k] THEN FALSE ELSE keypoint_visibilities[i][k]]]

----------------------------------------------------------------------------
(* Inputs the caller draws from. *)

\* The float just above a.
NextUp(a) == a + StepFor(a, 1, 1)

\* Keypoints <<y, x>>: with a NaN coordinate, with the smallest positive y,
\* inside the unit square, at the 1.01 limit (with the smallest positive x),
\* and just above the limit.
Points ==
    { <<Unit \div 4, NaN>>,
      <<1, Unit \div 4>>,
      <<Unit \div 2, Unit>>,
      <<Threshold, 1>>,
      <<NextUp(Threshold), Unit \div 2>> }

\* The tensors the caller starts from: three points, repeated along the
\* keypoint axis, each instance starting one point later than the one before.
Tensors ==
    { [i \in Instances |-> [k \in Keypoints |-> pose[((i + k) % 3) + 1]]] :
        pose \in Points \X Points \X Points }

\* [y_min, x_min, y_max, x_max]; the last one has y_min > y_max.
Windows ==
    { <<0, 0, Unit, Unit>>,
      <<Unit \div 4, Unit \div 4, 3 * (Unit \div 4), Unit>>,
      <<3 * (Unit \div 4), 0, Unit \div 4, Unit>> }

\* <<height, width>> of an image.
Sizes == { <<2, 4>>, <<3, 5>> }

FlipPoints == { Unit \div 2, Unit }

\* Permutations of the keypoint indices, as Python lists.  The first lists
\* 1, 2, ..., 0: it is its own inverse only when there are two keypoints.
Cycle == [j \in 1 .. NumKeypoints |-> j % NumKeypoints]

\* Swaps the last two keypoints, as the docstring's [0, 2, 1].
SwapLast ==
    [j \in 1 .. NumKeypoints |->
        IF j = NumKeypoints THEN NumKeypoints - 2
        ELSE IF j = NumKeypoints - 1 THEN NumKeypoints - 1 ELSE j - 1]

PermutationArgs == { None, Some(<<>>), Some(SwapLast), Some(Cycle) }

VisibilityArgs ==
    { None,
      Some([i \in Instances |-> [k \in Keypoints |-> k % 2 = 0]]) }

\* "unset": the variable is not in the environment.
EnvValues == { "unset", "0", "1" }

----------------------------------------------------------------------------
(* The caller. *)

NoVisibility == [called |-> FALSE]

Call(op, input, window, size, check_range, flip_point, permutation) ==
    [op |-> op, input |-> input, window |-> window, size |-> size,
     check_range |-> check_range, flip_point |-> flip_point,
     permutation |-> permutation]

NoCall == Call("none", "-", "-", "-", "-", "-", "-")

\* The call but for the tensor it is given.
Arguments(c) == [c EXCEPT !.input = "-"]

Init ==
    /\ envAssertActive \in EnvValues
    /\ ASSERT_ACTIVE = AssertActiveFromEnv(envAssertActive)
    /\ propagateNaN \in BOOLEAN
    /\ keypoints \in Tensors
    /\ call = NoCall
    /\ error = NoError
    /\ visibility = NoVisibility
    /\ base = keypoints
    /\ streak = 0

\* The caller makes call c, which returns or raises out: its first call, or
\* the same call again on what the last one returned.
Make(c, out) ==
    /\ streak < MaxRepeats
    /\ error.kind = "none"
    /\ ~visibility.called
    /\ call.op = "none" \/ (c.op = call.op /\ Arguments(c) = Arguments(call))
    /\ call' = c
    /\ keypoints' = IF out.ok THEN out.value ELSE keypoints
    /\ error' = IF out.ok THEN NoError ELSE out.error
    /\ streak' = streak + 1
    /\ UNCHANGED <<envAssertActive, ASSERT_ACTIVE, propagateNaN, visibility, base>>

ClipToWindow ==
    \E window \in Windows :
        Make(Call("clip_to_window", keypoints, window, "-", "-", "-", "-"),
             Returned(clip_to_window(keypoints, window, propagateNaN)))

PruneOutsideWindow ==
    \E window \in Windows :
        Make(Call("prune_outside_window", keypoints, window, "-", "-", "-", "-"),
             Returned(prune_outside_window(keypoints, window)))

ToNormalizedCoordinates ==
    \E size \in Sizes, check_range \in BOOLEAN :
        Make(Call("to_normalized_coordinates", keypoints, "-", size, check_range, "-", "-"),
             to_normalized_coordinates(keypoints, size[1], size[2], check_range,
                                       propagateNaN))

ToAbsoluteCoordinates ==
    \E size \in Sizes, check_range \in BOOLEAN :
        Make(Call("to_absolute_coordinates", keypoints, "-", size, check_range, "-", "-"),
             to_absolute_coordinates(keypoints, size[1], size[2], check_range,
                                     propagateNaN))

FlipHorizontal ==
    \E flip_point \in FlipPoints, flip_permutation \in PermutationArgs :
        Make(Call("flip_horizontal", keypoints, "-", "-", "-", flip_point, flip_permutation),
             Returned(flip_horizontal(keypoints, flip_point, flip_permutation)))

FlipVertical ==
    \E flip_point \in FlipPoints, flip_permutation \in PermutationArgs :
        Make(Call("flip_vertical", keypoints, "-", "-", "-", flip_point, flip_permutation),
             Returned(flip_vertical(keypoints, flip_point, flip_permutation)))

Rot90 ==
    \E rotation_permutation \in PermutationArgs :
        Make(Call("rot90", keypoints, "-", "-", "-", "-", rotation_permutation),
             Returned(rot90(keypoints, rotation_permutation)))

\* Returns a mask, not keypoints: the caller stops here.
SetKeypointVisibilities ==
    \E initial \in VisibilityArgs :
        /\ error.kind = "none"
        /\ ~visibility.called
        /\ visibility' = [called |-> TRUE, initial |-> initial,
                          mask |-> set_keypoint_visibilities(keypoints, initial)]
        /\ UNCHANGED <<envAssertActive, ASSERT_ACTIVE, propagateNaN, keypoints, call,
                       error, base, streak>>

Next ==
    \/ ClipToWindow
    \/ PruneOutsideWindow
    \/ ToNormalizedCoordinates
    \/ ToAbsoluteCoordinates
    \/ FlipHorizontal
    \/ FlipVertical
    \/ Rot90
    \/ SetKeypointVisibilities

Spec == Init /\ [][Next]_vars

----------------------------------------------------------------------------
(* Properties. *)

\* The numbers among the coordinates of a tensor.
Numbers(t) == Values(t) \ {NaN}

\* Every coordinate that is a number is at most the 1.01 limit, and there is one.
AtMostThreshold(t) == Numbers(t) /= {} /\ \A n \in Numbers(t) : n <= Threshold

\* Some coordinate is above the 1.01 limit.
AboveThreshold(t) == \E n \in Numbers(t) : n > Threshold

HasNaN(t) == NaN \in Values(t)

Largest(S) == CHOOSE m \in S : \A n \in S : n <= m

SameShape(t, u) ==
    /\ DOMAIN t = DOMAIN u
    /\ \A i \in DOMAIN t : DOMAIN t[i] = DOMAIN u[i]

RangeChecked(op) == call.op = op /\ call.check_range

RangeError == error.kind = "InvalidArgumentError"

AbsoluteOf(t, size) ==
    [i \in DOMAIN t |-> [k \in DOMAIN t[i] |->
        <<FMul(Y(t[i][k]), Float(size[1])), FMul(X(t[i][k]), Float(size[2]))>>]]

NormalizedOf(t, size) ==
    [i \in DOMAIN t |-> [k \in DOMAIN t[i] |->
        <<FMul(Y(t[i][k]), FDiv(Unit, Float(size[1]))),
          FMul(X(t[i][k]), FDiv(Unit, Float(size[2])))>>]]

WinYMin(w) == w[1]

WinXMin(w) == w[2]

WinYMax(w) == w[3]

WinXMax(w) == w[4]

Clipped == call.op = "clip_to_window"

\* C3, as stated: for every tensor and every window, also one with
\* y_min > y_max or x_min > x_max, every coordinate of clip_to_window's result
\* lies within the window's bounds, and the result has the shape of the input.
C3_AlwaysWithinWindow ==
    Clipped =>
        /\ SameShape(keypoints, call.input)
        /\ \A i \in DOMAIN keypoints : \A k \in DOMAIN keypoints[i] :
            /\ WinYMin(call.window) <= Y(keypoints[i][k])
            /\ Y(keypoints[i][k]) <= WinYMax(call.window)
            /\ WinXMin(call.window) <= X(keypoints[i][k])
            /\ X(keypoints[i][k]) <= WinXMax(call.window)

\* Coordinate c of the input clipped to [lo, hi] gave d.
ClippedTo(c, lo, hi, d) ==
    ~IsNaN(c) =>
        /\ lo <= hi => (lo <= d /\ d <= hi)
        /\ lo > hi => d = lo

\* C3, amended: clip_to_window's result has the shape of its input; along an
\* axis whose window bounds are ordered (min <= max) every coordinate that is
\* a number ends within the bounds, both included; along an axis with
\* min > max it ends at the lower bound, above the upper one.
C3_WithinOrderedWindow ==
    Clipped =>
        /\ SameShape(keypoints, call.input)
        /\ \A i \in DOMAIN keypoints : \A k \in DOMAIN keypoints[i] :
            /\ ClippedTo(Y(call.input[i][k]), WinYMin(call.window),
                         WinYMax(call.window), Y(keypoints[i][k]))
            /\ ClippedTo(X(call.input[i][k]), WinXMin(call.window),
                         WinXMax(call.window), X(keypoints[i][k]))

\* A window with ordered bounds, a keypoint below it that ended on the lower
\* bound and one above it that ended on the upper bound.
C3_Witness ==
    /\ Clipped
    /\ WinYMin(call.window) <= WinYMax(call.window)
    /\ WinXMin(call.window) <= WinXMax(call.window)
    /\ \E i \in DOMAIN keypoints : \E k, l \in DOMAIN keypoints[i] :
        /\ ~IsNaN(Y(call.input[i][k]))
        /\ Y(call.input[i][k]) < WinYMin(call.window)
        /\ Y(keypoints[i][k]) = WinYMin(call.window)
        /\ ~IsNaN(Y(call.input[i][l]))
        /\ Y(call.input[i][l]) > WinYMax(call.window)
        /\ Y(keypoints[i][l]) = WinYMax(call.window)

\* Both coordinates are numbers within the bounds of the window, bounds included.
Inside(p, w) ==
    /\ ~IsNaN(Y(p)) /\ ~IsNaN(X(p))
    /\ WinYMin(w) <= Y(p) /\ Y(p) <= WinYMax(w)
    /\ WinXMin(w) <= X(p) /\ X(p) <= WinXMax(w)

Pruned == call.op = "prune_outside_window"

\* C4: prune_outside_window keeps the shape; a keypoint with a coordinate
\* outside the window has both coordinates replaced by NaN, and a keypoint
\* inside the window, its boundary included, is returned unchanged.
C4_PrunesOutsideKeepsInside ==
    Pruned =>
        /\ SameShape(keypoints, call.input)
        /\ \A i \in DOMAIN keypoints : \A k \in DOMAIN keypoints[i] :
            keypoints[i][k] = IF Inside(call.input[i][k], call.window)
                              THEN call.input[i][k] ELSE <<NaN, NaN>>

\* A keypoint with only y outside the window became (NaN, NaN), and a
\* keypoint on the boundary of the window was kept.
C4_Witness ==
    /\ Pruned
    /\ \E i \in DOMAIN keypoints : \E k, l \in DOMAIN keypoints[i] :
        /\ ~IsNaN(Y(call.input[i][k]))
        /\ Y(call.input[i][k]) < WinYMin(call.window)
        /\ WinXMin(call.window) <= X(call.input[i][k])
        /\ X(call.input[i][k]) <= WinXMax(call.window)
        /\ keypoints[i][k] = <<NaN, NaN>>
        /\ X(call.input[i][l]) = WinXMax(call.window)
        /\ keypoints[i][l] = call.input[i][l]

InitialVisibility(i, k) == visibility.initial.none \/ visibility.initial.list[i][k]

\* C6: set_keypoint_visibilities returns, for every keypoint, its initial
\* visibility (true when none is given) and not a NaN in either coordinate.
C6_VisibleIffInitialAndNoNaN ==
    visibility.called =>
        /\ DOMAIN visibility.mask = DOMAIN keypoints
        /\ \A i \in DOMAIN keypoints :
            /\ DOMAIN visibility.mask[i] = DOMAIN keypoints[i]
            /\ \A k \in DOMAIN keypoints[i] :
                visibility.mask[i][k] =
                    (/\ InitialVisibility(i, k)
                     /\ ~IsNaN(Y(keypoints[i][k]))
                     /\ ~IsNaN(X(keypoints[i][k])))

\* With initial visibilities given: a keypoint with a single NaN coordinate and
\* initial visibility true is invisible, a keypoint without NaN and initial
\* visibility false stays invisible, and one is visible.
C6_Witness ==
    /\ visibility.called
    /\ ~visibility.initial.none
    /\ \E i \in DOMAIN keypoints : \E k, l, m \in DOMAIN keypoints[i] :
        /\ IsNaN(X(keypoints[i][k])) /\ ~IsNaN(Y(keypoints[i][k]))
        /\ visibility.initial.list[i][k] /\ ~visibility.mask[i][k]
        /\ ~IsNaN(X(keypoints[i][l])) /\ ~IsNaN(Y(keypoints[i][l]))
        /\ ~visibility.initial.list[i][l] /\ ~visibility.mask[i][l]
        /\ visibility.mask[i][m]

\* C10: the visibilities derived from a pruned tensor: a keypoint is visible
\* if and only if its initial visibility is true and, before pruning, both its
\* coordinates were numbers inside the window; a keypoint with a NaN before
\* pruning is NaN after it and is not visible.
C10_VisibleIffInitialAndInside ==
    (Pruned /\ visibility.called) =>
        \A i \in DOMAIN call.input : \A k \in DOMAIN call.input[i] :
            /\ visibility.mask[i][k] =
                  (InitialVisibility(i, k) /\ Inside(call.input[i][k], call.window))
            /\ (IsNaN(Y(call.input[i][k])) \/ IsNaN(X(call.input[i][k])))
                  => /\ keypoints[i][k] = <<NaN, NaN>>
                     /\ ~visibility.mask[i][k]

\* After a pruning: a keypoint that was outside the window is not visible
\* though its initial visibility is true, a keypoint that had a NaN is not
\* visible, and a keypoint on the boundary of the window is visible.
C10_Witness ==
    /\ Pruned
    /\ visibility.called
    /\ \E i \in DOMAIN call.input : \E k, l, m \in DOMAIN call.input[i] :
        /\ ~IsNaN(Y(call.input[i][k])) /\ ~IsNaN(X(call.input[i][k]))
        /\ ~Inside(call.input[i][k], call.window)
        /\ InitialVisibility(i, k) /\ ~visibility.mask[i][k]
        /\ IsNaN(X(call.input[i][l])) /\ ~visibility.mask[i][l]
        /\ X(call.input[i][m]) = WinXMax(call.window) /\ visibility.mask[i][m]

\* What each transform does to the coordinates of one keypoint.
Moved(c, p) ==
    IF c.op = "flip_horizontal" THEN <<Y(p), FSub(FMul(c.flip_point, Float(2)), X(p))>>
    ELSE IF c.op = "flip_vertical" THEN <<FSub(FMul(c.flip_point, Float(2)), Y(p)), X(p)>>
    ELSE <<FSub(Float(1), X(p)), Y(p)>>

Permuted ==
    /\ call.op \in {"flip_horizontal", "flip_vertical", "rot90"}
    /\ Truthy(call.permutation)

\* C5: a permutation p given to flip_horizontal, flip_vertical or rot90 maps
\* the original index of a keypoint to its index in the result: the keypoint
\* at index p[k] of the result is the transformed keypoint k of the input.
C5_PermutationMapsOriginalToResult ==
    Permuted =>
        \A i \in DOMAIN call.input : \A k \in DOMAIN call.input[i] :
            keypoints[i][call.permutation.list[k + 1]] = Moved(call, call.input[i][k])

Unpermuted(op) == call.op = op /\ ~Truthy(call.permutation)

\* Every coordinate is a number of [0, 1].
InUnitSquare(t) == \A c \in Values(t) : ~IsNaN(c) /\ 0 <= c /\ c <= Unit

\* C7, as stated: four rot90 in a row without permutation return the tensor
\* they started from, when its coordinates are in [0, 1].
C7_FourTurnsAreIdentity ==
    (Unpermuted("rot90") /\ streak = 4 /\ InUnitSquare(base)) => keypoints = base

\* Half the spacing of the floats just below 1.0.
TurnTolerance == StepFor(Unit - 1, 1, 1) \div 2

\* Four quarter turns of coordinate c of [0, 1] gave d.
TurnedBack(c, d) ==
    /\ d = FSub(Float(1), FSub(Float(1), c))
    /\ Abs(d - c) <= TurnTolerance
    /\ IsFloat(Unit - c) => d = c

\* C7, amended: rot90 without permutation maps every keypoint (y, x) to
\* (1 - x, y), the subtraction rounded as float32, at the same instance and
\* keypoint index; four of them in a row turn every coordinate c of a tensor
\* of [0, 1] into 1 - (1 - c): c itself when 1 - c is a float, and otherwise
\* within half the spacing of the floats below 1.0 of c.
C7_FourTurnsWithinRounding ==
    Unpermuted("rot90") =>
        /\ SameShape(keypoints, call.input)
        /\ \A i \in DOMAIN keypoints : \A k \in DOMAIN keypoints[i] :
            keypoints[i][k] =
                <<FSub(Float(1), X(call.input[i][k])), Y(call.input[i][k])>>
        /\ (streak = 4 /\ InUnitSquare(base)) =>
            \A i \in DOMAIN keypoints : \A k \in DOMAIN keypoints[i] :
                /\ TurnedBack(Y(base[i][k]), Y(keypoints[i][k]))
                /\ TurnedBack(X(base[i][k]), X(keypoints[i][k]))

\* Four turns of a tensor of [0, 1]: one keypoint is back where it was, and
\* one is not, by less than the tolerance.
C7_Witness ==
    /\ Unpermuted("rot90")
    /\ streak = 4
    /\ InUnitSquare(base)
    /\ \E i \in DOMAIN keypoints : \E k, l \in DOMAIN keypoints[i] :
        /\ keypoints[i][k] = base[i][k]
        /\ Y(base[i][k]) /= X(base[i][k])
        /\ keypoints[i][l] /= base[i][l]

\* C8, as stated: two flip_horizontal in a row about the same point, without
\* permutation, return the tensor they started from.
C8_TwoFlipsAreIdentity ==
    (Unpermuted("flip_horizontal") /\ streak = 2) => keypoints = base

\* The spacing of the floats at the largest magnitude that flipping x about a
\* point with double twice_point goes through.
FlipTolerance(twice_point, x) ==
    StepFor(Largest({Abs(twice_point), Abs(x), Abs(twice_point - x)}), 1, 1)

\* Two flips of coordinate c about the point with double twice_point gave d.
FlippedBack(twice_point, c, d) ==
    IF IsNaN(c) THEN IsNaN(d)
    ELSE /\ d = FSub(twice_point, FSub(twice_point, c))
         /\ Abs(d - c) <= FlipTolerance(twice_point, c)
         /\ IsFloat(twice_point - c) => d = c

\* C8, amended: flip_horizontal without permutation (None or empty) maps every
\* keypoint (y, x) to (y, 2*flip_point - x), the subtraction rounded as
\* float32, at the same instance and keypoint index, leaving y unchanged; two
\* of them about the same point leave y unchanged and turn x into
\* 2p - (2p - x): x itself when 2p - x is a float, and otherwise within the
\* spacing of the floats at the larger of |2p|, |x| and |2p - x|.
C8_TwoFlipsWithinRounding ==
    Unpermuted("flip_horizontal") =>
        /\ SameShape(keypoints, call.input)
        /\ \A i \in DOMAIN keypoints : \A k \in DOMAIN keypoints[i] :
            keypoints[i][k] =
                <<Y(call.input[i][k]),
                  FSub(FMul(call.flip_point, Float(2)), X(call.input[i][k]))>>
        /\ streak = 2 =>
            \A i \in DOMAIN keypoints : \A k \in DOMAIN keypoints[i] :
                /\ Y(keypoints[i][k]) = Y(base[i][k])
                /\ FlippedBack(FMul(call.flip_point, Float(2)),
                               X(base[i][k]), X(keypoints[i][k]))

\* Two flips with the empty permutation: one x moved by the first flip is back
\* where it was, and one is not.
C8_Witness ==
    /\ Unpermuted("flip_horizontal")
    /\ ~call.permutation.none
    /\ streak = 2
    /\ \E i \in DOMAIN keypoints : \E k, l \in DOMAIN keypoints[i] :
        /\ X(keypoints[i][k]) = X(base[i][k])
        /\ X(call.input[i][k]) /= X(base[i][k])
        /\ X(keypoints[i][l]) /= X(base[i][l])

====
